---------------------------- MODULE Spec2Model ----------------------------
(***************************************************************************)
(* Model of the tree-sitter parsers validation crate.                      *)
(*                                                                         *)
(*   validation/build.rs     the build script: locate the prebuilt archive *)
(*                           for the target, read the metadata sidecar,    *)
(*                           filter it and generate grammars.rs            *)
(*   validation/src/main.rs  the validator: iterate available_grammars(),  *)
(*                           test_language() each, exit 0 or 1             *)
(*                                                                         *)
(* Three specifications share the variables:                               *)
(*   Spec      one run of the build script (build.rs main)                 *)
(*   RunSpec   one run of the validator binary (main.rs main), started     *)
(*             from the bindings a successful build generated              *)
(*   UnitSpec  generate_bindings, load_grammar and test_language applied   *)
(*             to synthetic descriptor lists, names and grammar behaviours *)
(*                                                                         *)
(* Strings whose characters the code inspects (file names, grammar names,  *)
(* symbols) are sequences of one-character strings; strings that are only  *)
(* compared whole (target triples, messages) are TLA+ strings.             *)
(***************************************************************************)
EXTENDS Naturals, Sequences, FiniteSets

VARIABLES
    \* ---- build script (build.rs) ----
    bpc,            \* position of build.rs main
    env,            \* the environment variables TARGET and HOST read at line 15-17
    fs,             \* the filesystem state get_validation_library_path looked at
    target,         \* local `target` of get_validation_library_path
    lib_result,     \* what get_validation_library_path returned
    link,           \* cargo directives printed by main (lines 85-89)
    sidecar,        \* the metadata sidecar file: missing, unreadable, malformed or a descriptor list
    metadata_path,  \* local `metadata_path` of main
    test_grammars,  \* local `test_grammars` of main
    grammars_rs,    \* OUT_DIR/grammars.rs: NoFile or the generated bindings
    \* ---- validator (main.rs) ----
    pc,             \* position of main.rs main
    idx,            \* number of names of `languages` the for loop has consumed
    all_passed,     \* local `all_passed`
    results,        \* the report: one <<name, Ok/Err, message>> line per tested grammar
    last,           \* what the latest test_language call did (its steps and what they observed)
    exit_code,      \* argument of std::process::exit, or NoExit
    \* ---- functions applied in isolation ----
    call            \* the latest application of a function to synthetic inputs

build_vars == <<bpc, env, fs, target, lib_result, link, metadata_path, test_grammars>>
run_vars   == <<pc, idx, all_passed, results, last, exit_code>>
vars == <<bpc, env, fs, target, lib_result, link, sidecar, metadata_path,
          test_grammars, grammars_rs, pc, idx, all_passed, results, last,
          exit_code, call>>

-----------------------------------------------------------------------------
(* Bounds of the model *)

\* longest descriptor list read from a sidecar or given to generate_bindings
MaxGrammars == 3
\* largest node_kind_count a grammar reports
MaxNodeKinds == 1

-----------------------------------------------------------------------------
(* Character strings *)

S_dot_a      == <<".","a">>
S_dot_json   == <<".","j","s","o","n">>
S_lib_prefix == <<"l","i","b","t","r","e","e","-","s","i","t","t","e","r","-","p","a","r","s","e","r","s","-","a","l","l","-">>
S_grammars   == <<"g","r","a","m","m","a","r","s","-">>
S_lib        == <<"l","i","b">>
S_tree_sitter == <<"t","r","e","e","_","s","i","t","t","e","r","_">>
S_LANGUAGE   == <<"_","L","A","N","G","U","A","G","E">>
S_dash       == <<"-">>
S_underscore == <<"_">>

S_c          == <<"c">>
S_python     == <<"p","y","t","h","o","n">>
S_javascript == <<"j","a","v","a","s","c","r","i","p","t">>
S_rust       == <<"r","u","s","t">>
S_go         == <<"g","o">>
S_csharp     == <<"c","s","h","a","r","p">>
S_c_sharp    == <<"c","_","s","h","a","r","p">>
S_ssh        == <<"s","s","h","-","c","l","i","e","n","t","-","c","o","n","f","i","g">>

LowerChars == <<"a","b","c","d","e","f","g","h","i","j","k","l","m","n","o","p","q","r","s","t","u","v","w","x","y","z">>
UpperChars == <<"A","B","C","D","E","F","G","H","I","J","K","L","M","N","O","P","Q","R","S","T","U","V","W","X","Y","Z">>

F_macos_aarch64   == <<"l","i","b","t","r","e","e","-","s","i","t","t","e","r","-","p","a","r","s","e","r","s","-","a","l","l","-","m","a","c","o","s","-","a","a","r","c","h","6","4",".","a">>
F_macos_x86_64    == <<"l","i","b","t","r","e","e","-","s","i","t","t","e","r","-","p","a","r","s","e","r","s","-","a","l","l","-","m","a","c","o","s","-","x","8","6","_","6","4",".","a">>
F_linux_aarch64_glibc == <<"l","i","b","t","r","e","e","-","s","i","t","t","e","r","-","p","a","r","s","e","r","s","-","a","l","l","-","l","i","n","u","x","-","a","a","r","c","h","6","4","-","g","l","i","b","c",".","a">>
F_linux_x86_64_glibc  == <<"l","i","b","t","r","e","e","-","s","i","t","t","e","r","-","p","a","r","s","e","r","s","-","a","l","l","-","l","i","n","u","x","-","x","8","6","_","6","4","-","g","l","i","b","c",".","a">>
F_linux_aarch64_musl  == <<"l","i","b","t","r","e","e","-","s","i","t","t","e","r","-","p","a","r","s","e","r","s","-","a","l","l","-","l","i","n","u","x","-","a","a","r","c","h","6","4","-","m","u","s","l",".","a">>
F_linux_x86_64_musl   == <<"l","i","b","t","r","e","e","-","s","i","t","t","e","r","-","p","a","r","s","e","r","s","-","a","l","l","-","l","i","n","u","x","-","x","8","6","_","6","4","-","m","u","s","l",".","a">>
F_windows_aarch64 == <<"l","i","b","t","r","e","e","-","s","i","t","t","e","r","-","p","a","r","s","e","r","s","-","a","l","l","-","w","i","n","d","o","w","s","-","a","a","r","c","h","6","4",".","a">>
F_windows_x86_64  == <<"l","i","b","t","r","e","e","-","s","i","t","t","e","r","-","p","a","r","s","e","r","s","-","a","l","l","-","w","i","n","d","o","w","s","-","x","8","6","_","6","4",".","a">>

\* str::starts_with
StartsWith(s, pat) == Len(s) >= Len(pat) /\ SubSeq(s, 1, Len(pat)) = pat

\* str::replace: every non-overlapping match of pat, left to right, becomes rep
RECURSIVE Replace(_, _, _)
Replace(s, pat, rep) ==
    IF Len(s) < Len(pat) \/ Len(pat) = 0 THEN s
    ELSE IF StartsWith(s, pat)
         THEN rep \o Replace(SubSeq(s, Len(pat) + 1, Len(s)), pat, rep)
         ELSE <<Head(s)>> \o Replace(Tail(s), pat, rep)

\* char::to_uppercase on the characters the model uses
UpperChar(ch) ==
    IF \E k \in 1..Len(LowerChars) : LowerChars[k] = ch
    THEN UpperChars[CHOOSE k \in 1..Len(LowerChars) : LowerChars[k] = ch]
    ELSE ch

\* str::to_uppercase
to_uppercase(s) == [k \in 1..Len(s) |-> UpperChar(s[k])]

\* the position of the last '.' of a file name, 0 when it has none
LastDot(s) ==
    IF \E k \in 1..Len(s) : s[k] = "."
    THEN CHOOSE k \in 1..Len(s) : s[k] = "." /\ \A m \in (k+1)..Len(s) : s[m] # "."
    ELSE 0

\* Path::file_stem: the file name without its last extension
file_stem(s) == IF LastDot(s) > 1 THEN SubSeq(s, 1, LastDot(s) - 1) ELSE s

\* str::strip_prefix(..).unwrap_or(s)
strip_prefix_or(s, pat) ==
    IF StartsWith(s, pat) THEN SubSeq(s, Len(pat) + 1, Len(s)) ELSE s

-----------------------------------------------------------------------------
(* build.rs: the Artifact Locator *)

NotSet == "<not set>"
NoFilename == <<>>
NoPath == [dir |-> <<>>, file |-> <<>>]

SupportedTargets ==
    { "aarch64-apple-darwin", "x86_64-apple-darwin",
      "aarch64-unknown-linux-gnu", "x86_64-unknown-linux-gnu",
      "aarch64-unknown-linux-musl", "x86_64-unknown-linux-musl",
      "aarch64-pc-windows-gnu", "x86_64-pc-windows-gnu" }

\* a mapping that falls back to a default archive for an unknown triple
expected_filename_fallback(t) ==
    CASE t = "aarch64-apple-darwin"       -> F_macos_aarch64
      [] t = "x86_64-apple-darwin"        -> F_macos_x86_64
      [] t = "aarch64-unknown-linux-gnu"  -> F_linux_aarch64_glibc
      [] t = "aarch64-unknown-linux-musl" -> F_linux_aarch64_musl
      [] t = "x86_64-unknown-linux-musl"  -> F_linux_x86_64_musl
      [] t = "aarch64-pc-windows-gnu"     -> F_windows_aarch64
      [] t = "x86_64-pc-windows-gnu"      -> F_windows_x86_64
      [] OTHER                            -> F_linux_x86_64_glibc

\* the match of lines 30-42; NoFilename is the `_` arm
expected_filename(t) ==
    CASE t = "aarch64-apple-darwin"       -> F_macos_aarch64
      [] t = "x86_64-apple-darwin"        -> F_macos_x86_64
      [] t = "aarch64-unknown-linux-gnu"  -> F_linux_aarch64_glibc
      [] t = "x86_64-unknown-linux-gnu"   -> F_linux_x86_64_glibc
      [] t = "aarch64-unknown-linux-musl" -> F_linux_aarch64_musl
      [] t = "x86_64-unknown-linux-musl"  -> F_linux_x86_64_musl
      [] t = "aarch64-pc-windows-gnu"     -> F_windows_aarch64
      [] t = "x86_64-pc-windows-gnu"      -> F_windows_x86_64
      [] OTHER                            -> NoFilename

\* lines 15-17: TARGET, else HOST, else "unknown"
target_of(e) ==
    IF e.TARGET # NotSet THEN e.TARGET
    ELSE IF e.HOST # NotSet THEN e.HOST
    ELSE "unknown"

\* env::current_dir() of a build script that runs in <repo>/validation
CrateDir == <<"repo", "validation">>
\* Path::parent
parent_dir(d) == SubSeq(d, 1, Len(d) - 1)

Ok(p)   == [kind |-> "Ok", path |-> p]
Err(e)  == [kind |-> e, path |-> NoPath]

\* get_validation_library_path.  f.cwd is "ok", "err" (current_dir fails) or
\* "root" (the current directory has no parent, so parent().unwrap() panics);
\* f.dist says whether <parent>/dist exists and f.files which files it holds.
\*   "CurrentDirError"        Failed to get current dir
\*   "BuildArtifactsMissing"  dist directory not found
\*   "UnsupportedTarget"      Unsupported target for validation
\*   "ArtifactNotFound"       Library .. not found in ..
get_validation_library_path(e, f) ==
    LET t == target_of(e)
        dist_dir == parent_dir(CrateDir) \o <<"dist">>
        lib_path == [dir |-> dist_dir, file |-> expected_filename(t)]
    IN  IF f.cwd = "err" THEN Err("CurrentDirError")
        ELSE IF f.cwd = "root" THEN Err("Panic")
        ELSE IF ~f.dist THEN Err("BuildArtifactsMissing")
        ELSE IF expected_filename(t) = NoFilename THEN Err("UnsupportedTarget")
        ELSE IF lib_path.file \in f.files THEN Ok(lib_path)
        ELSE Err("ArtifactNotFound")

\* a sidecar path that keeps the archive's naming prefix
get_metadata_path_ext_only(lib_path) ==
    [dir |-> lib_path.dir, file |-> Replace(lib_path.file, S_dot_a, S_dot_json)]

\* get_metadata_path: same directory, ".a" -> ".json", then the prefix
get_metadata_path(lib_path) ==
    [dir  |-> lib_path.dir,
     file |-> Replace(Replace(lib_path.file, S_dot_a, S_dot_json),
                      S_lib_prefix, S_grammars)]

-----------------------------------------------------------------------------
(* build.rs: the Metadata Loader and the Binding Generator *)

\* Option<String>
None == <<>>
Some(x) == <<x>>

\* struct Grammar
Grammar(n, sym) == [name |-> n, symbol_name |-> sym]

\* the array of line 113
ValidationSubset == <<S_c, S_python, S_javascript, S_rust, S_go>>

InSubset(g) == \E k \in 1..Len(ValidationSubset) : ValidationSubset[k] = g.name

\* a filter that collects the grammars in the order of the allow-list
filter_in_subset_order(gs) ==
    LET pick(n) == SelectSeq(gs, LAMBDA g : g.name = n)
    IN  pick(S_c) \o pick(S_python) \o pick(S_javascript) \o pick(S_rust) \o pick(S_go)

\* lines 111-114: into_iter().filter(..).collect()
filter_test_grammars(gs) == SelectSeq(gs, InSubset)

\* a derivation that replaces only the first '-'
extern_fn_name_first_dash(g) ==
    IF g.symbol_name # None THEN g.symbol_name[1]
    ELSE IF g.name = S_csharp THEN S_c_sharp
    ELSE IF \E k \in 1..Len(g.name) : g.name[k] = "-"
         THEN LET k == CHOOSE k \in 1..Len(g.name) :
                           g.name[k] = "-" /\ \A m \in 1..(k-1) : g.name[m] # "-"
              IN  [m \in 1..Len(g.name) |-> IF m = k THEN "_" ELSE g.name[m]]
         ELSE g.name

\* lines 133-139: fn_name of the extern declaration
extern_fn_name(g) ==
    IF g.symbol_name # None THEN g.symbol_name[1]
    ELSE IF g.name = S_csharp THEN S_c_sharp
    ELSE Replace(g.name, S_dash, S_underscore)

\* lines 150-156: fn_name of the LanguageFn constant
const_fn_name(g) ==
    IF g.symbol_name # None THEN g.symbol_name[1]
    ELSE IF g.name = S_csharp THEN S_c_sharp
    ELSE Replace(g.name, S_dash, S_underscore)

\* line 157 and 170: const_name, with the _LANGUAGE suffix of the format strings
const_name(g) == to_uppercase(g.name) \o S_LANGUAGE

\* the file grammars.rs has not been written
NoFile == [written |-> FALSE]

\* a generator whose match arms leave out the last grammar
generate_bindings_short_match(gs) ==
    [written |-> TRUE,
     externs |-> [k \in 1..Len(gs) |-> S_tree_sitter \o extern_fn_name(gs[k])],
     consts  |-> [k \in 1..Len(gs) |->
                    [name |-> const_name(gs[k]),
                     fn   |-> S_tree_sitter \o const_fn_name(gs[k])]],
     arms    |-> [k \in 1..(IF Len(gs) > 1 THEN Len(gs) - 1 ELSE Len(gs)) |->
                    [pattern |-> gs[k].name, const |-> const_name(gs[k])]],
     listing |-> [k \in 1..Len(gs) |-> gs[k].name]]

\* generate_bindings: the items of the generated source, in the order written
\*   externs  unsafe extern "C" { fn tree_sitter_<fn_name>() -> *const (); }
\*   consts   pub const <CONST>_LANGUAGE: LanguageFn = .. from_raw(tree_sitter_<fn_name>)
\*   arms     "<name>" => Some(<CONST>_LANGUAGE.into()),   (then `_ => None`)
\*   listing  the array returned by available_grammars()
generate_bindings(gs) ==
    [written |-> TRUE,
     externs |-> [k \in 1..Len(gs) |-> S_tree_sitter \o extern_fn_name(gs[k])],
     consts  |-> [k \in 1..Len(gs) |->
                    [name |-> const_name(gs[k]),
                     fn   |-> S_tree_sitter \o const_fn_name(gs[k])]],
     arms    |-> [k \in 1..Len(gs) |->
                    [pattern |-> gs[k].name, const |-> const_name(gs[k])]],
     listing |-> [k \in 1..Len(gs) |-> gs[k].name]]

\* rustc accepts the generated source: no extern fn and no constant is defined
\* twice, every constant names a declared extern fn and every arm a constant
Compiles(b) ==
    /\ \A j, k \in 1..Len(b.externs) : b.externs[j] = b.externs[k] => j = k
    /\ \A j, k \in 1..Len(b.consts) : b.consts[j].name = b.consts[k].name => j = k
    /\ \A k \in 1..Len(b.consts) : \E j \in 1..Len(b.externs) : b.externs[j] = b.consts[k].fn
    /\ \A k \in 1..Len(b.arms) : \E j \in 1..Len(b.consts) : b.consts[j].name = b.arms[k].const

\* generated available_grammars()
available_grammars(b) == b.listing

\* generated load_grammar, up to the constant the matching arm names: the
\* first arm whose pattern is the name, None for the `_` arm.  Some(..) holds
\* the extern symbol the constant wraps; `.into()` then calls it.
load_grammar(b, n) ==
    IF \E k \in 1..Len(b.arms) : b.arms[k].pattern = n
    THEN LET k == CHOOSE k \in 1..Len(b.arms) :
                      b.arms[k].pattern = n /\ \A m \in 1..(k-1) : b.arms[m].pattern # n
             c == CHOOSE j \in 1..Len(b.consts) : b.consts[j].name = b.arms[k].const
         IN  Some(b.consts[c].fn)
    ELSE None

-----------------------------------------------------------------------------
(* build.rs: main *)

Envs ==
    [TARGET : SupportedTargets \cup {"wasm32-unknown-unknown", NotSet},
     HOST   : {"x86_64-unknown-linux-gnu", "riscv64gc-unknown-linux-gnu", NotSet}]

ArchiveNames ==
    { F_macos_aarch64, F_macos_x86_64, F_linux_aarch64_glibc, F_linux_x86_64_glibc,
      F_linux_aarch64_musl, F_linux_x86_64_musl, F_windows_aarch64, F_windows_x86_64 }

\* the filesystem: no dist directory, or a dist directory holding at most one archive
FsStates ==
    [cwd : {"ok", "err", "root"}, dist : {FALSE}, files : {{}}]
    \cup [cwd : {"ok", "err", "root"}, dist : {TRUE},
          files : {{}} \cup {{f} : f \in ArchiveNames}]

\* descriptors a sidecar lists
SidecarPool ==
    { Grammar(S_c, Some(S_c)), Grammar(S_python, None), Grammar(S_go, None),
      Grammar(S_csharp, None) }

SeqsUpTo(S, n) == UNION {[1..k -> S] : k \in 0..n}

SidecarLists == SeqsUpTo(SidecarPool, MaxGrammars)

NoSidecar == [state |-> "unobserved", grammars |-> <<>>]

\* the sidecar file: absent, present but unreadable (read_to_string fails),
\* not a JSON array of Grammar records, or a descriptor list
SidecarStates ==
    {[state |-> st, grammars |-> <<>>] : st \in {"missing", "unreadable", "malformed"}}
    \cup {[state |-> "ok", grammars |-> gs] : gs \in SidecarLists}

NoEnv == [TARGET |-> NotSet, HOST |-> NotSet]
NoFs == [cwd |-> "ok", dist |-> FALSE, files |-> {}]
NoResult == [kind |-> "none", path |-> NoPath]
NoLink == [lib |-> <<>>, search |-> <<>>]

BuildInit ==
    /\ bpc = "start"
    /\ env = NoEnv
    /\ fs = NoFs
    /\ target = NotSet
    /\ lib_result = NoResult
    /\ link = NoLink
    /\ sidecar = NoSidecar
    /\ metadata_path = NoPath
    /\ test_grammars = <<>>
    /\ grammars_rs = NoFile

\* the validator has not been started
RunIdle ==
    /\ pc = "start"
    /\ idx = 0
    /\ all_passed = TRUE
    /\ results = <<>>
    /\ last = [name |-> <<>>, ret |-> [kind |-> "none", msg |-> "", detail |-> <<>>],
               sym |-> None, steps |-> <<>>]
    /\ exit_code = None

NoCall == [fn |-> "none"]

\* main, lines 70-99: get_validation_library_path().expect(..), then the
\* link directives.  An Err (or a panic inside) ends the build script.
GetLibrary ==
    /\ bpc = "start"
    /\ \E e \in Envs, f \in FsStates :
         LET r == get_validation_library_path(e, f)
         IN  /\ env' = e
             /\ fs' = f
             /\ target' = target_of(e)
             /\ lib_result' = r
             /\ IF r.kind = "Ok"
                THEN /\ bpc' = "located"
                     /\ link' = [lib    |-> strip_prefix_or(file_stem(r.path.file), S_lib),
                                 search |-> r.path.dir]
                ELSE /\ bpc' = "failed"
                     /\ link' = link
    /\ UNCHANGED <<sidecar, metadata_path, test_grammars, grammars_rs>>
    /\ UNCHANGED <<run_vars, call>>

\* a loader that, finding no sidecar, goes on with an empty grammar list
ReadMetadataLenient ==
    /\ bpc = "located"
    /\ \E sc \in SidecarStates :
         /\ sidecar' = sc
         /\ metadata_path' = get_metadata_path(lib_result.path)
         /\ IF sc.state \in {"ok", "missing"}
            THEN /\ bpc' = "filtered"
                 /\ test_grammars' = filter_test_grammars(sc.grammars)
            ELSE /\ bpc' = "failed"
                 /\ test_grammars' = test_grammars
    /\ UNCHANGED <<env, fs, target, lib_result, link, grammars_rs>>
    /\ UNCHANGED <<run_vars, call>>

\* main, lines 102-116 and 118-120: the sidecar must exist (else panic!), be
\* readable and parse (else expect panics); then the filter of lines 111-114
ReadMetadata ==
    /\ bpc = "located"
    /\ \E sc \in SidecarStates :
         /\ sidecar' = sc
         /\ metadata_path' = get_metadata_path(lib_result.path)
         /\ IF sc.state = "ok"
            THEN /\ bpc' = "filtered"
                 /\ test_grammars' = filter_test_grammars(sc.grammars)
            ELSE /\ bpc' = "failed"
                 /\ test_grammars' = test_grammars
    /\ UNCHANGED <<env, fs, target, lib_result, link, grammars_rs>>
    /\ UNCHANGED <<run_vars, call>>

\* main, line 117: generate_bindings(out_path, &test_grammars); fs::write(..).unwrap()
\* either writes grammars.rs or panics
WriteBindings ==
    /\ bpc = "filtered"
    /\ \E written \in BOOLEAN :
         IF written
         THEN /\ grammars_rs' = generate_bindings(test_grammars)
              /\ bpc' = "done"
         ELSE /\ grammars_rs' = grammars_rs
              /\ bpc' = "failed"
    /\ UNCHANGED <<env, fs, target, lib_result, link, sidecar, metadata_path, test_grammars>>
    /\ UNCHANGED <<run_vars, call>>

Init == BuildInit /\ RunIdle /\ call = NoCall

Next == GetLibrary \/ ReadMetadata \/ WriteBindings

Spec == Init /\ [][Next]_vars

-----------------------------------------------------------------------------
(* main.rs: test_language *)

\* the table of lines 14-20; len is test_code.len()
test_cases ==
    << [name |-> S_c,          len |-> 24],
       [name |-> S_python,     len |-> 21],
       [name |-> S_javascript, len |-> 31],
       [name |-> S_rust,       len |-> 32],
       [name |-> S_go,         len |-> 36] >>

\* What the archive's code does when the validator calls into it.
\*   entry           the entry point tree_sitter_<sym>(): returns a grammar
\*                   ("ok"), returns a null pointer ("null"), or the call
\*                   faults because the symbol is not really there ("crash")
\*   ub              what the engine's reads through a null grammar pointer do:
\*                   fault ("crash") or yield whatever is read ("garbage")
\*   node_kind_count Language::node_kind_count
\*   set_language    Parser::set_language: Ok or Err(LanguageError)
\*   parse           Parser::parse: Some(tree) or None
\*   has_error       tree.root_node().has_error()
Behaviours ==
    [entry : {"ok", "null", "crash"}, ub : {"crash", "garbage"},
     node_kind_count : 0..MaxNodeKinds, set_language : {"ok", "err"},
     parse : {"tree", "none"}, has_error : BOOLEAN]

Step(o, x) == [op |-> o, obs |-> x]
RetOk(nodes, parsed) ==
    [kind |-> "Ok", msg |-> "", detail |-> <<[nodes |-> nodes, parsed |-> parsed]>>]
RetErr(m) == [kind |-> "Err", msg |-> m, detail |-> <<>>]
\* the process dies inside the call: test_language does not return
Crash == [kind |-> "Crash", msg |-> "", detail |-> <<>>]
Return(r, sym, st) == [ret |-> r, sym |-> sym, steps |-> st]

\* test_cases.iter().find(|(name, _)| *name == lang_name), as an Option
find_test_case(cases, lang_name) ==
    IF \E k \in 1..Len(cases) : cases[k].name = lang_name
    THEN Some(cases[CHOOSE k \in 1..Len(cases) :
                 cases[k].name = lang_name /\ \A m \in 1..(k-1) : cases[m].name # lang_name])
    ELSE None

\* a test_language that constructs and binds the parser before the sanity check
test_language_probe_first(sym, fixture, h) ==
    LET nk == IF h.node_kind_count = 0 THEN "zero" ELSE "nonzero"
        s1 == <<Step("load_grammar", h.entry), Step("Parser::new", "ok"),
                Step("node_kind_count", nk)>>
    IN  IF sym = None
        THEN Return(RetErr("Failed to load grammar"), sym, <<Step("load_grammar", "None")>>)
        ELSE IF h.entry # "ok" THEN Return(Crash, sym, <<Step("load_grammar", h.entry)>>)
        ELSE IF h.node_kind_count = 0
        THEN Return(RetErr("Invalid language (0 node kinds)"), sym, s1)
        ELSE IF fixture = None
        THEN Return(RetOk(h.node_kind_count, None), sym, s1)
        ELSE IF h.set_language = "err"
        THEN Return(RetErr("Failed to set language"), sym,
                    s1 \o <<Step("set_language", "err")>>)
        ELSE IF h.parse = "none"
        THEN Return(RetErr("Failed to parse test code"), sym,
                    s1 \o <<Step("set_language", "ok"), Step("parse", "none")>>)
        ELSE IF h.has_error
        THEN Return(RetErr("Parse tree has errors"), sym,
                    s1 \o <<Step("set_language", "ok"), Step("parse", "tree"),
                            Step("has_error", "true")>>)
        ELSE Return(RetOk(h.node_kind_count, Some(fixture[1].len)), sym,
                    s1 \o <<Step("set_language", "ok"), Step("parse", "tree"),
                            Step("has_error", "false")>>)

\* the body of test_language, lines 50-79, given what load_grammar(lang_name)
\* resolves to (sym) and what the find of line 62 returns (fixture): what the
\* function returns and the calls it made, with what each observed
test_language_body(sym, fixture, h) ==
    LET nk == IF h.node_kind_count = 0 THEN "zero" ELSE "nonzero"
        s1 == <<Step("load_grammar", h.entry), Step("node_kind_count", nk)>>
        s2 == s1 \o <<Step("Parser::new", "ok"), Step("set_language", h.set_language)>>
        s3 == s2 \o <<Step("parse", h.parse)>>
        s4 == s3 \o <<Step("has_error", IF h.has_error THEN "true" ELSE "false")>>
    IN  \* Test 1, lines 52-53
        IF sym = None
        THEN Return(RetErr("Failed to load grammar"), sym, <<Step("load_grammar", "None")>>)
        ELSE IF h.entry = "crash"
        THEN Return(Crash, sym, <<Step("load_grammar", "crash")>>)
        \* Test 2, lines 56-59; no null check precedes the read of the count
        ELSE IF h.entry = "null" /\ h.ub = "crash"
        THEN Return(Crash, sym, <<Step("load_grammar", "null"), Step("node_kind_count", "crash")>>)
        ELSE IF h.node_kind_count = 0
        THEN Return(RetErr("Invalid language (0 node kinds)"), sym, s1)
        \* Test 3, lines 62-78
        ELSE IF fixture = None
        THEN Return(RetOk(h.node_kind_count, None), sym, s1)
        ELSE IF h.set_language = "err"
        THEN Return(RetErr("Failed to set language"), sym, s2)
        ELSE IF h.parse = "none"
        THEN Return(RetErr("Failed to parse test code"), sym, s3)
        ELSE IF h.has_error
        THEN Return(RetErr("Parse tree has errors"), sym, s4)
        ELSE Return(RetOk(h.node_kind_count, Some(fixture[1].len)), sym, s4)

\* test_language(lang_name, test_cases) against the bindings b, when the
\* archive's code behaves as h
test_language(b, lang_name, cases, h) ==
    test_language_body(load_grammar(b, lang_name), find_test_case(cases, lang_name), h)

\* what one call test_language(lang_name, &test_cases) can do, over everything
\* the archive's code can do
Outcomes(b, lang_name) ==
    LET sym == load_grammar(b, lang_name)
        fixture == find_test_case(test_cases, lang_name)
    IN  {test_language_body(sym, fixture, h) : h \in Behaviours}

-----------------------------------------------------------------------------
(* main.rs: main *)

\* `languages` of line 8
languages == available_grammars(grammars_rs)

\* a successful build on one platform, up to the sidecar
DefaultEnv == [TARGET |-> "x86_64-unknown-linux-gnu", HOST |-> "x86_64-unknown-linux-gnu"]
DefaultFs == [cwd |-> "ok", dist |-> TRUE, files |-> {F_linux_x86_64_glibc}]

\* The validator binary exists: the build script ran to its end on some
\* sidecar and rustc accepted the generated grammars.rs.
RunInit ==
    /\ bpc = "done"
    /\ env = DefaultEnv
    /\ fs = DefaultFs
    /\ target = target_of(DefaultEnv)
    /\ lib_result = get_validation_library_path(DefaultEnv, DefaultFs)
    /\ link = [lib    |-> strip_prefix_or(file_stem(lib_result.path.file), S_lib),
               search |-> lib_result.path.dir]
    /\ metadata_path = get_metadata_path(lib_result.path)
    /\ \E gs \in SidecarLists :
         /\ sidecar = [state |-> "ok", grammars |-> gs]
         /\ test_grammars = filter_test_grammars(gs)
         /\ grammars_rs = generate_bindings(test_grammars)
    /\ Compiles(grammars_rs)
    /\ RunIdle
    /\ call = NoCall

\* lines 5-20
Start ==
    /\ pc = "start"
    /\ pc' = "loop"
    /\ idx' = 0
    /\ all_passed' = TRUE
    /\ UNCHANGED <<results, last, exit_code>>
    /\ UNCHANGED <<build_vars, sidecar, grammars_rs, call>>

\* one iteration of the for loop that keeps all_passed as it is on an Err
TestNextKeepFlag ==
    /\ pc = "loop"
    /\ idx < Len(languages)
    /\ \E r \in Outcomes(grammars_rs, languages[idx + 1]) :
         LET lang_name == languages[idx + 1]
         IN  /\ last' = [name |-> lang_name, ret |-> r.ret, sym |-> r.sym, steps |-> r.steps]
             /\ IF r.ret.kind = "Crash"
                THEN /\ pc' = "crashed"
                     /\ UNCHANGED <<idx, all_passed, results>>
                ELSE /\ pc' = "loop"
                     /\ idx' = idx + 1
                     /\ results' = Append(results, [name |-> lang_name, ret |-> r.ret])
                     /\ all_passed' = all_passed
    /\ UNCHANGED exit_code
    /\ UNCHANGED <<build_vars, sidecar, grammars_rs, call>>

\* one iteration of the for loop that leaves the loop on the first Err
TestNextShortCircuit ==
    /\ pc = "loop"
    /\ idx < Len(languages)
    /\ \E r \in Outcomes(grammars_rs, languages[idx + 1]) :
         LET lang_name == languages[idx + 1]
         IN  /\ last' = [name |-> lang_name, ret |-> r.ret, sym |-> r.sym, steps |-> r.steps]
             /\ IF r.ret.kind = "Crash"
                THEN /\ pc' = "crashed"
                     /\ UNCHANGED <<idx, all_passed, results>>
                ELSE /\ pc' = "loop"
                     /\ idx' = IF r.ret.kind = "Ok" THEN idx + 1 ELSE Len(languages)
                     /\ results' = Append(results, [name |-> lang_name, ret |-> r.ret])
                     /\ all_passed' = IF r.ret.kind = "Ok" THEN all_passed ELSE FALSE
    /\ UNCHANGED exit_code
    /\ UNCHANGED <<build_vars, sidecar, grammars_rs, call>>

\* lines 22-34: one iteration of the for loop.  When the call into the
\* archive faults the process dies there.
TestNext ==
    /\ pc = "loop"
    /\ idx < Len(languages)
    /\ \E r \in Outcomes(grammars_rs, languages[idx + 1]) :
         LET lang_name == languages[idx + 1]
         IN  /\ last' = [name |-> lang_name, ret |-> r.ret, sym |-> r.sym, steps |-> r.steps]
             /\ IF r.ret.kind = "Crash"
                THEN /\ pc' = "crashed"
                     /\ UNCHANGED <<idx, all_passed, results>>
                ELSE /\ pc' = "loop"
                     /\ idx' = idx + 1
                     /\ results' = Append(results, [name |-> lang_name, ret |-> r.ret])
                     /\ all_passed' = IF r.ret.kind = "Ok" THEN all_passed ELSE FALSE
    /\ UNCHANGED exit_code
    /\ UNCHANGED <<build_vars, sidecar, grammars_rs, call>>

\* lines 36-47, after the loop
Summary ==
    /\ pc = "loop"
    /\ idx = Len(languages)
    /\ pc' = "exited"
    /\ exit_code' = IF all_passed THEN Some(0) ELSE Some(1)
    /\ UNCHANGED <<idx, all_passed, results, last>>
    /\ UNCHANGED <<build_vars, sidecar, grammars_rs, call>>

RunNext == Start \/ TestNext \/ Summary

RunSpec == RunInit /\ [][RunNext]_vars

-----------------------------------------------------------------------------
(* The functions applied to synthetic inputs *)

\* descriptors given to generate_bindings directly
UnitPool ==
    { Grammar(S_c, Some(S_c)), Grammar(S_python, None), Grammar(S_go, None),
      Grammar(S_csharp, None), Grammar(S_csharp, Some(S_csharp)), Grammar(S_ssh, None) }

\* names looked up and tested; javascript is in no list
UnitNames == {S_c, S_python, S_go, S_csharp, S_ssh, S_javascript}

UnitInit ==
    /\ bpc = "filtered"
    /\ env = NoEnv
    /\ fs = NoFs
    /\ target = NotSet
    /\ lib_result = NoResult
    /\ link = NoLink
    /\ sidecar = NoSidecar
    /\ metadata_path = NoPath
    /\ test_grammars \in SeqsUpTo(UnitPool, MaxGrammars)
    /\ grammars_rs = NoFile
    /\ RunIdle
    /\ call = NoCall

\* generate_bindings(out_path, gs)
UnitGenerate ==
    /\ ~grammars_rs.written
    /\ grammars_rs' = generate_bindings(test_grammars)
    /\ UNCHANGED <<build_vars, sidecar, run_vars, call>>

\* load_grammar(name) of the generated source
UnitLoad ==
    /\ grammars_rs.written
    /\ call = NoCall
    /\ \E n \in UnitNames :
         call' = [fn |-> "load_grammar", name |-> n, out |-> load_grammar(grammars_rs, n)]
    /\ UNCHANGED <<build_vars, sidecar, grammars_rs, run_vars>>

\* test_language(name, &test_cases) against the generated source
UnitTest ==
    /\ grammars_rs.written
    /\ call = NoCall
    /\ \E n \in UnitNames :
         \E r \in Outcomes(grammars_rs, n) :
            call' = [fn |-> "test_language", name |-> n, out |-> r]
    /\ UNCHANGED <<build_vars, sidecar, grammars_rs, run_vars>>

UnitNext == UnitGenerate \/ UnitLoad \/ UnitTest

UnitSpec == UnitInit /\ [][UnitNext]_vars

-----------------------------------------------------------------------------
(* Claims about the validator's main (RunSpec) *)

AllOk(rs) == \A k \in 1..Len(rs) : rs[k].ret.kind = "Ok"

C1_Inv ==
    /\ all_passed = AllOk(results)
    /\ pc = "exited" =>
          /\ Len(results) = Len(languages)
          /\ exit_code = (IF AllOk(results) THEN Some(0) ELSE Some(1))
    /\ pc # "exited" => exit_code = None

\* C1: once the loop has gone over the whole listing the process exits with
\* status 0 exactly when every recorded outcome is Ok and with status 1 when
\* some outcome is Err; all_passed is always the conjunction of the outcomes
\* recorded so far, and once false it stays false.
C1_ExitStatus ==
    /\ []C1_Inv
    /\ [][(~all_passed) => (~all_passed')]_vars

\* an Err followed by an Ok, and the process exited with status 1
C1_Witness ==
    /\ pc = "exited"
    /\ exit_code = Some(1)
    /\ Len(results) >= 2
    /\ results[1].ret.kind = "Err"
    /\ results[Len(results)].ret.kind = "Ok"

C2_Inv ==
    /\ idx = Len(results)
    /\ idx <= Len(languages)
    /\ \A k \in 1..Len(results) : results[k].name = languages[k]
    /\ pc = "exited" => Len(results) = Len(languages)
    \* after an Err, while names are left, the next test runs and the next
    \* grammar can pass as well as fail
    /\ (pc = "loop" /\ idx < Len(languages) /\ ~AllOk(results)) =>
          /\ ENABLED (TestNext /\ pc' = "loop" /\ results'[idx + 1].ret.kind = "Ok")
          /\ ENABLED (TestNext /\ pc' = "loop" /\ results'[idx + 1].ret.kind = "Err")

C2_Step ==
    \* a report line is only ever appended, one grammar at a time
    /\ results' # results =>
          /\ Len(results') = Len(results) + 1
          /\ SubSeq(results', 1, Len(results)) = results
    \* an Err leaves the loop running at the next name
    /\ (results' # results /\ results'[Len(results')].ret.kind = "Err") =>
          (pc' = "loop" /\ idx' = idx + 1)
    \* the decision and the exit come after the last name only
    /\ (pc' = "exited" /\ pc # "exited") => idx = Len(languages)

\* C2: the names of the listing are tested once each, in listing order; an
\* Err neither ends the loop nor limits what the next grammar's outcome can
\* be; the summary and the exit come only after the last name.
C2_NoShortCircuit ==
    /\ []C2_Inv
    /\ [][C2_Step]_vars

\* three grammars were tested although the first one failed
C2_Witness ==
    /\ pc = "exited"
    /\ Len(results) = 3
    /\ results[1].ret.kind = "Err"
    /\ results[2].ret.kind = "Ok"
    /\ results[3].ret.kind = "Err"

\* C3: when the entry point of a grammar is not really there (the call faults
\* or returns a null pointer) the grammar is reported as an Err and the
\* process does not crash.
C3_MissingEntryBecomesFail ==
    (last.steps # <<>> /\ last.steps[1].obs \in {"null", "crash"}) =>
        (pc # "crashed" /\ last.ret.kind = "Err")

-----------------------------------------------------------------------------
(* Claims about the build script (Spec) *)

\* C4, as claimed: an unsupported target identifier always ends in
\* UnsupportedTarget, whether the dist directory exists or not and whether
\* it holds an archive or not.
C4_AlwaysUnsupportedTarget ==
    (bpc # "start" /\ target \notin SupportedTargets /\ fs.cwd = "ok") =>
        lib_result.kind = "UnsupportedTarget"

\* C4, amended: an unsupported target identifier never yields a path and ends
\* the build; the error is UnsupportedTarget when the current directory is
\* known, has a parent and the dist directory exists (with or without an
\* archive in it), and the error of the earlier check otherwise.
C4_UnsupportedNeverPath ==
    (bpc # "start" /\ target \notin SupportedTargets) =>
        /\ lib_result.kind # "Ok"
        /\ lib_result.path = NoPath
        /\ bpc = "failed"
        /\ (fs.cwd = "ok" /\ fs.dist) => lib_result.kind = "UnsupportedTarget"
        /\ (fs.cwd = "ok" /\ ~fs.dist) => lib_result.kind = "BuildArtifactsMissing"
        /\ fs.cwd = "err" => lib_result.kind = "CurrentDirError"
        /\ fs.cwd = "root" => lib_result.kind = "Panic"

\* neither TARGET nor HOST is set and dist holds an archive
C4_Witness ==
    /\ bpc = "failed"
    /\ env = NoEnv
    /\ target = "unknown"
    /\ fs.cwd = "ok" /\ fs.dist /\ fs.files # {}
    /\ lib_result.kind = "UnsupportedTarget"

C7_Inv ==
    /\ grammars_rs.written =>
          (lib_result.kind = "Ok" /\ sidecar.state = "ok" /\ bpc = "done")
    /\ (bpc # "start" /\ lib_result.kind # "Ok") =>
          (bpc = "failed" /\ ~grammars_rs.written /\ sidecar = NoSidecar)
    /\ sidecar.state \in {"missing", "unreadable", "malformed"} =>
          (bpc = "failed" /\ ~grammars_rs.written)

C7_Step ==
    \* grammars.rs is written by the last step only, after the filter
    /\ grammars_rs' # grammars_rs =>
          /\ bpc = "filtered" /\ bpc' = "done"
          /\ lib_result.kind = "Ok"
          /\ sidecar.state = "ok"
          /\ grammars_rs'.listing = [k \in 1..Len(test_grammars) |-> test_grammars[k].name]
    \* the filter runs only on a sidecar that was found and parsed
    /\ bpc' = "filtered" => (bpc = "located" /\ sidecar'.state = "ok")
    \* the sidecar is looked for only after the archive was located
    /\ sidecar' # sidecar => (bpc = "located" /\ lib_result.kind = "Ok")
    \* a failed build takes no further step
    /\ bpc = "failed" => vars' = vars

\* C7: a failure of the Artifact Locator, a missing sidecar and a sidecar
\* that cannot be read or parsed each end the build with grammars.rs
\* unwritten; grammars.rs is written only along archive located -> sidecar
\* found and parsed -> filtered -> generated.
C7_FatalBeforeBindings ==
    /\ []C7_Inv
    /\ [][C7_Step]_vars

\* the archive was located and the sidecar is absent
C7_Witness ==
    /\ bpc = "failed"
    /\ lib_result.kind = "Ok"
    /\ sidecar.state = "missing"
    /\ ~grammars_rs.written

\* the lookup table of the Artifact Locator, as pairs
ArchiveTable ==
    { <<"aarch64-apple-darwin",       F_macos_aarch64>>,
      <<"x86_64-apple-darwin",        F_macos_x86_64>>,
      <<"aarch64-unknown-linux-gnu",  F_linux_aarch64_glibc>>,
      <<"x86_64-unknown-linux-gnu",   F_linux_x86_64_glibc>>,
      <<"aarch64-unknown-linux-musl", F_linux_aarch64_musl>>,
      <<"x86_64-unknown-linux-musl",  F_linux_x86_64_musl>>,
      <<"aarch64-pc-windows-gnu",     F_windows_aarch64>>,
      <<"x86_64-pc-windows-gnu",      F_windows_x86_64>> }

\* the part of an archive name between the prefix and the extension
Middle(f) == SubSeq(f, Len(S_lib_prefix) + 1, Len(f) - Len(S_dot_a))

\* C8: a returned path names the one archive the table gives for the target,
\* whatever else the environment and the filesystem hold, and is returned
\* only when dist exists and holds that file; the sidecar path is in the same
\* directory and is the archive name with the prefix libtree-sitter-parsers-all-
\* replaced by grammars- and the extension .a by .json.
C8_ArchiveAndSidecarPath ==
    /\ \A t \in SupportedTargets : Cardinality({p \in ArchiveTable : p[1] = t}) = 1
    /\ lib_result.kind = "Ok" =>
          /\ target \in SupportedTargets
          /\ <<target, lib_result.path.file>> \in ArchiveTable
          /\ fs.cwd = "ok" /\ fs.dist
          /\ lib_result.path.file \in fs.files
          /\ lib_result.path.dir = <<"repo", "dist">>
    /\ (bpc # "start" /\ target \in SupportedTargets /\ fs.cwd = "ok" /\ fs.dist
          /\ (\E p \in ArchiveTable : p[1] = target /\ p[2] \in fs.files)) =>
          lib_result.kind = "Ok"
    /\ metadata_path # NoPath =>
          /\ lib_result.kind = "Ok"
          /\ metadata_path.dir = lib_result.path.dir
          /\ lib_result.path.file = S_lib_prefix \o Middle(lib_result.path.file) \o S_dot_a
          /\ metadata_path.file = S_grammars \o Middle(lib_result.path.file) \o S_dot_json

\* the sidecar path was derived for the musl archive of an aarch64 target
C8_Witness ==
    /\ env.TARGET = "aarch64-unknown-linux-musl"
    /\ lib_result.kind = "Ok"
    /\ metadata_path # NoPath
    /\ metadata_path.file = S_grammars \o
          <<"l","i","n","u","x","-","a","a","r","c","h","6","4","-","m","u","s","l">> \o S_dot_json

-----------------------------------------------------------------------------
(* Claim about the order of the grammars, from the sidecar to the report (RunSpec) *)

AllowList == {S_c, S_python, S_javascript, S_rust, S_go}

Kept(src) == {i \in 1..Len(src) : src[i].name \in AllowList}

\* out is src without the descriptors whose name is outside the allow-list,
\* the others in the positions they had relative to each other
IsAllowedSubsequence(out, src) ==
    /\ Len(out) = Cardinality(Kept(src))
    /\ \A i \in Kept(src) : out[Cardinality({j \in Kept(src) : j <= i})] = src[i]

\* C9: the Metadata Loader's output is the sidecar's descriptor list without
\* the descriptors outside {c, python, javascript, rust, go}, in sidecar
\* order; the listing of the generated bindings and the lines of the
\* validator's report follow that same order.
C9_SourceOrder ==
    (sidecar.state = "ok" /\ bpc \in {"filtered", "done"}) =>
        /\ IsAllowedSubsequence(test_grammars, sidecar.grammars)
        /\ grammars_rs.written =>
              /\ Len(available_grammars(grammars_rs)) = Len(test_grammars)
              /\ \A k \in 1..Len(test_grammars) :
                    available_grammars(grammars_rs)[k] = test_grammars[k].name
        /\ Len(results) <= Len(test_grammars)
        /\ \A k \in 1..Len(results) : results[k].name = test_grammars[k].name

\* the sidecar lists python, csharp, c: the report has python, then c
C9_Witness ==
    /\ pc = "exited"
    /\ sidecar.grammars = <<Grammar(S_python, None), Grammar(S_csharp, None),
                            Grammar(S_c, Some(S_c))>>
    /\ Len(results) = 2
    /\ results[1].name = S_python
    /\ results[2].name = S_c

-----------------------------------------------------------------------------
(* Claims about the functions (UnitSpec) *)

\* the symbol after the tree_sitter_ prefix of the format strings
Unprefixed(sym) == SubSeq(sym, Len(S_tree_sitter) + 1, Len(sym))

\* the precedence of the derivation, for descriptor g and derived symbol sym
DerivedAsClaimed(g, sym) ==
    /\ g.symbol_name # None => sym = g.symbol_name[1]
    /\ (g.symbol_name = None /\ g.name = <<"c","s","h","a","r","p">>) =>
          sym = <<"c","_","s","h","a","r","p">>
    /\ (g.symbol_name = None /\ g.name # <<"c","s","h","a","r","p">>) =>
          /\ Len(sym) = Len(g.name)
          /\ \A k \in 1..Len(sym) : sym[k] = (IF g.name[k] = "-" THEN "_" ELSE g.name[k])
          /\ (\A k \in 1..Len(g.name) : g.name[k] # "-") => sym = g.name

\* C5: the symbol of each extern declaration is the override when there is
\* one, else c_sharp for the name csharp, else the name with every '-'
\* replaced by '_'; the constant of the same grammar wraps that same symbol.
C5_SymbolDerivation ==
    grammars_rs.written =>
        /\ Len(grammars_rs.externs) = Len(test_grammars)
        /\ Len(grammars_rs.consts) = Len(test_grammars)
        /\ \A k \in 1..Len(test_grammars) :
              /\ StartsWith(grammars_rs.externs[k], S_tree_sitter)
              /\ DerivedAsClaimed(test_grammars[k], Unprefixed(grammars_rs.externs[k]))
              /\ grammars_rs.consts[k].fn = grammars_rs.externs[k]

\* bindings generated for an override, for csharp and for a name with two '-'
C5_Witness ==
    /\ grammars_rs.written
    /\ test_grammars = <<Grammar(S_c, Some(S_c)), Grammar(S_csharp, None), Grammar(S_ssh, None)>>
    /\ Unprefixed(grammars_rs.externs[2]) = S_c_sharp
    /\ Unprefixed(grammars_rs.externs[3]) =
          <<"s","s","h","_","c","l","i","e","n","t","_","c","o","n","f","i","g">>

InListing(n) ==
    \E k \in 1..Len(available_grammars(grammars_rs)) : available_grammars(grammars_rs)[k] = n

\* C6: load_grammar returns Some for exactly the names of the listing and
\* None, not an error, for every other name; test_language never reports
\* "Failed to load grammar" for a name of the listing.
C6_ListingLookupRoundTrip ==
    /\ call.fn = "load_grammar" =>
          /\ InListing(call.name) <=> call.out # None
          /\ ~InListing(call.name) => call.out = None
          /\ call.out # None => \E k \in 1..Len(grammars_rs.externs) :
                                    grammars_rs.externs[k] = call.out[1]
    /\ call.fn = "test_language" =>
          (call.out.ret.msg = "Failed to load grammar" <=> ~InListing(call.name))

\* the last name of a three-name listing was looked up and found
C6_Witness ==
    /\ call.fn = "load_grammar"
    /\ Len(available_grammars(grammars_rs)) = 3
    /\ call.name = available_grammars(grammars_rs)[3]
    /\ call.name # available_grammars(grammars_rs)[1]
    /\ call.name # available_grammars(grammars_rs)[2]
    /\ call.out # None


\* the calls of test_language in the order of the code
StepOrder == <<"load_grammar", "node_kind_count", "Parser::new", "set_language",
               "parse", "has_error">>

\* the names of the fixture table
FixtureNames == {S_c, S_python, S_javascript, S_rust, S_go}

\* the step is one the state machine fails on
Fails(s) ==
    \/ s.op = "load_grammar" /\ s.obs = "None"
    \/ s.op = "node_kind_count" /\ s.obs = "zero"
    \/ s.op = "set_language" /\ s.obs = "err"
    \/ s.op = "parse" /\ s.obs = "none"
    \/ s.op = "has_error" /\ s.obs = "true"

\* the archive's code faulted in the step
Faults(s) == s.obs = "crash"

\* the reason reported for a failing step
Reason(s) ==
    CASE s.op = "load_grammar"    -> "Failed to load grammar"
      [] s.op = "node_kind_count" -> "Invalid language (0 node kinds)"
      [] s.op = "set_language"    -> "Failed to set language"
      [] s.op = "parse"           -> "Failed to parse test code"
      [] s.op = "has_error"       -> "Parse tree has errors"
      [] OTHER                    -> "no reason"

=============================================================================
